---- MODULE Spec2Model ----
(***************************************************************************)
(* A model of src/src/data/merger.py: the mergers that reconcile two       *)
(* person registries, resolve user references of promotions and            *)
(* transactions, and build the per-user, per-item and per-store summaries. *)
(*                                                                         *)
(* A DataFrame is a record [columns, rows]: the set of its column names    *)
(* and the sequence of its rows, a row being a function from the column    *)
(* names to cell values.  Text-like cells (ids, e-mails, phones, names)    *)
(* are strings, a missing text cell is the string None, and a cell that    *)
(* holds a Python list is the string of its repr.  Measures (price,        *)
(* quantity, amount) are integers, a missing measure is NaN below.         *)
(***************************************************************************)
EXTENDS Integers, Sequences, FiniteSets, TLC

VARIABLES
    people_json_df,   \* PeopleMerger / MainDataMerger: the JSON person table
    people_yml_df,    \* PeopleMerger / MainDataMerger: the YAML person table
    people_df,        \* the identity table handed to the other mergers
    promotions_df,    \* UserReferencesMerger.promotions_df
    transactions_df,  \* the transactions table of the merger constructed
    transfers_df,     \* UserTransfersMerger.transfers_df
    result,           \* the dict merge() returned: output name -> table
    merge_errors,     \* DataMerger.merge_errors of the merger constructed
    called            \* the merge() that has run, "" before any call

vars == <<people_json_df, people_yml_df, people_df, promotions_df,
          transactions_df, transfers_df, result, merge_errors, called>>

-----------------------------------------------------------------------------
(* Bounds of the model: the longest input tables.                          *)

MaxPeopleRows == 2

MaxIdentityRows == 2

MaxPromotionRows == 2

MaxTransactionRows == 2

MaxTransferRows == 2

-----------------------------------------------------------------------------
(* Cell values and DataFrame primitives.                                   *)

None == "None"

\* The missing value of a numeric column: an integer that no measure, sum or
\* difference of the model takes.
NaN == -1

isna(v) == v = None

notna(v) == v # None

\* pd.DataFrame()
EmptyDataFrame == [columns |-> {}, rows |-> <<>>]

\* transactions_df = None (no table given)
NoDataFrame == [columns |-> {"<None>"}, rows |-> <<>>]

Table(cols, rows) == [columns |-> cols, rows |-> rows]

\* An entry of merge_errors: the text of the message, the count it reports
\* (0 when it reports none) and the columns it names (none unless it is
\* about missing columns).
Message(text, n) == [text |-> text, n |-> n, columns |-> {}]

MissingColumnsMessage(text, cols) == [text |-> text, n |-> 0, columns |-> cols]

Range(s) == {s[i] : i \in DOMAIN s}

\* The elements of s at the indices in idxs, in order.
SelectIdx(s, idxs) ==
    LET F[i \in 0..Len(s)] ==
            IF i = 0 THEN <<>>
            ELSE IF i \in idxs THEN Append(F[i-1], s[i]) ELSE F[i-1]
    IN  F[Len(s)]

\* df[col]: the column as a sequence of cells.
Column(df, col) == [i \in DOMAIN df.rows |-> df.rows[i][col]]

\* df[col] = None, for a column the frame may lack.
SetColumnNone(df, col) ==
    Table(df.columns \cup {col},
          [i \in DOMAIN df.rows |->
              [c \in df.columns \cup {col} |->
                  IF c = col THEN None ELSE df.rows[i][c]]])

\* A mutant of DropColumn: the column stays.
DropColumnKept(df, col) == df

\* df.drop(columns=[col], errors='ignore')
DropColumn(df, col) ==
    Table(df.columns \ {col},
          [i \in DOMAIN df.rows |->
              [c \in df.columns \ {col} |-> df.rows[i][c]]])

\* df.at[i, col] = v
SetAt(df, i, col, v) ==
    Table(df.columns, [df.rows EXCEPT ![i] = [@ EXCEPT ![col] = v]])

-----------------------------------------------------------------------------
(* Person tables.                                                          *)

common_columns ==
    {"user_id", "first_name", "last_name", "email", "phone",
     "city", "country", "devices"}

\* The list cells of the model and what ', '.join(map(str, x)) makes of them.
ListCells == {"['ios', 'mac']"}

JoinList(v) == IF v = "['ios', 'mac']" THEN "ios, mac" ELSE v

isinstance_list(v) == v \in ListCells

\* Lines 671-676: every column that holds a list gets its lists joined.
ConvertLists(df) ==
    Table(df.columns,
          [i \in DOMAIN df.rows |->
              [c \in df.columns |->
                  IF isinstance_list(df.rows[i][c])
                  THEN JoinList(df.rows[i][c]) ELSE df.rows[i][c]]])

\* Lines 127-132 and 693-698: every common column the frame lacks is added,
\* filled with None.
EnsureCommonColumns(df) ==
    Table(df.columns \cup common_columns,
          [i \in DOMAIN df.rows |->
              [c \in df.columns \cup common_columns |->
                  IF c \in df.columns THEN df.rows[i][c] ELSE None]])

\* pd.concat([a, b], ignore_index=True): a's rows then b's rows over the
\* union of the columns, a cell of a column a frame lacks being NaN.
Concat(a, b) ==
    LET cols == a.columns \cup b.columns
        Widen(df) == [i \in DOMAIN df.rows |->
                         [c \in cols |->
                             IF c \in df.columns THEN df.rows[i][c] ELSE None]]
    IN  Table(cols, Widen(a) \o Widen(b))

\* A mutant of DropDuplicates: keep='last'.
DropDuplicatesKeepLast(df, col) ==
    Table(df.columns,
          SelectIdx(df.rows,
                    {i \in DOMAIN df.rows :
                        \A j \in (i+1)..Len(df.rows) :
                            df.rows[j][col] # df.rows[i][col]}))

\* A mutant of DropDuplicates: keep=False, every duplicated row goes.
DropDuplicatesKeepNone(df, col) ==
    Table(df.columns,
          SelectIdx(df.rows,
                    {i \in DOMAIN df.rows :
                        \A j \in DOMAIN df.rows :
                            j # i => df.rows[j][col] # df.rows[i][col]}))

\* df.drop_duplicates(subset=[col], keep='first'); null cells are equal to
\* each other for this purpose.
DropDuplicates(df, col) ==
    Table(df.columns,
          SelectIdx(df.rows,
                    {i \in DOMAIN df.rows :
                        \A j \in 1..(i-1) :
                            df.rows[j][col] # df.rows[i][col]}))

\* MainDataMerger.merge, lines 664-709, as a function of its two inputs.
MainMergePeople(json, yml) ==
    LET j == EnsureCommonColumns(ConvertLists(json))
        y == EnsureCommonColumns(ConvertLists(yml))
        merged_df == Concat(j, y)
    IN  IF "user_id" \in merged_df.columns
        THEN DropDuplicates(merged_df, "user_id")
        ELSE merged_df

\* pd.merge(left, right, on=common_columns, how='outer') for frames whose
\* columns are the common columns: a left row comes once per right row with
\* the same key (once if there is none), then the right rows no left row
\* matches.  pandas orders the result by key; no consumer reads the order.
OuterMergeOnCommon(left, right) ==
    LET Key(r) == [c \in common_columns |-> r[c]]
        Matches(r, df) == {k \in DOMAIN df.rows : Key(df.rows[k]) = Key(r)}
        L[i \in 0..Len(left.rows)] ==
            IF i = 0 THEN <<>>
            ELSE LET n == Cardinality(Matches(left.rows[i], right))
                 IN  L[i-1] \o [k \in 1..(IF n = 0 THEN 1 ELSE n) |-> left.rows[i]]
        R == SelectIdx(right.rows,
                       {k \in DOMAIN right.rows : Matches(right.rows[k], left) = {}})
    IN  Table(left.columns \cup right.columns, L[Len(left.rows)] \o R)

\* Whether a frame holds a list cell (pd.merge cannot hash it and raises).
HasListCell(df) ==
    \E i \in DOMAIN df.rows : \E c \in df.columns : isinstance_list(df.rows[i][c])

-----------------------------------------------------------------------------
(* UserReferencesMerger: user_id looked up by e-mail and phone.            *)

\* df[col].isna().all(): true of a column without rows.
AllNa(df, col) == \A i \in DOMAIN df.rows : isna(df.rows[i][col])

\* people_df.set_index(attr)['user_id'].to_dict(): the keys of the mapping.
LookupKeys(people, attr) == {people.rows[i][attr] : i \in DOMAIN people.rows}

\* The value the mapping holds for key: to_dict keeps the last row of a key.
LookupValue(people, attr, key) ==
    LET hits == {i \in DOMAIN people.rows : people.rows[i][attr] = key}
        last == CHOOSE i \in hits : \A j \in hits : j <= i
    IN  people.rows[last]["user_id"]

\* The loops of lines 195-197, 209-211 and 250-252: each row among idxs whose
\* raw attribute is not null and is a key of the mapping gets the mapped
\* user_id.
FillUserId(df, idxs, raw, people, attr) ==
    Table(df.columns,
          [i \in DOMAIN df.rows |->
              IF /\ i \in idxs
                 /\ notna(df.rows[i][raw])
                 /\ df.rows[i][raw] \in LookupKeys(people, attr)
              THEN [df.rows[i] EXCEPT
                       !["user_id"] = LookupValue(people, attr, df.rows[i][raw])]
              ELSE df.rows[i]])

\* A mutant of StillMissing: the phone lookup visits every row.
StillMissingAll(df) == DOMAIN df.rows

\* Line 208: mask = promotions_df['user_id'].isna(), the rows the phone
\* lookup visits.
StillMissing(df) == {i \in DOMAIN df.rows : isna(df.rows[i]["user_id"])}

\* A mutant of MissingUserId: counts the rows that have a user_id.
MissingUserIdNotna(df) ==
    Cardinality({i \in DOMAIN df.rows : notna(df.rows[i]["user_id"])})

\* Lines 218 and 259: df['user_id'].isna().sum()
MissingUserId(df) ==
    Cardinality({i \in DOMAIN df.rows : isna(df.rows[i]["user_id"])})

\* Lines 218-220 and 259-261: the error recorded when rows stay unresolved.
UnresolvedErrors(df, what) ==
    IF MissingUserId(df) > 0
    THEN <<Message("Could not find user_id for " \o what, MissingUserId(df))>>
    ELSE <<>>

\* What a helper of the merger hands back: the frame and the errors it
\* added, or raised = TRUE when an exception left it.
Returned(df, errors) == [raised |-> FALSE, df |-> df, errors |-> errors]

Raised == [raised |-> TRUE, df |-> EmptyDataFrame, errors |-> <<>>]

\* Line 183 / 238: user_id is there and not entirely null.
AlreadyResolved(df) == "user_id" \in df.columns /\ ~AllNa(df, "user_id")

\* UserReferencesMerger._add_user_references_to_promotions, lines 180-222.
\* set_index(...)['user_id'] raises KeyError on an identity table without
\* the user_id column.
add_user_references_to_promotions(people, promotions) ==
    IF AlreadyResolved(promotions) THEN Returned(promotions, <<>>)
    ELSE
    LET p1 == IF "user_id" \notin promotions.columns
              THEN SetColumnNone(promotions, "user_id") ELSE promotions
        byEmail == "client_email" \in p1.columns /\ "email" \in people.columns
        byPhone == "telephone" \in p1.columns /\ "phone" \in people.columns
        p2 == IF byEmail
              THEN DropColumn(
                       FillUserId(p1, DOMAIN p1.rows, "client_email", people, "email"),
                       "client_email")
              ELSE p1
        p3 == IF byPhone
              THEN DropColumn(
                       FillUserId(p2, StillMissing(p2), "telephone", people, "phone"),
                       "telephone")
              ELSE p2
    IN  IF (byEmail \/ byPhone) /\ "user_id" \notin people.columns
        THEN Raised
        ELSE Returned(p3, UnresolvedErrors(p3, "promotions"))

\* UserReferencesMerger._add_user_references_to_transactions, lines 231-263.
add_user_references_to_transactions(people, transactions) ==
    IF transactions = NoDataFrame THEN Returned(EmptyDataFrame, <<>>)
    ELSE IF AlreadyResolved(transactions) THEN Returned(transactions, <<>>)
    ELSE
    LET t1 == IF "user_id" \notin transactions.columns
              THEN SetColumnNone(transactions, "user_id") ELSE transactions
        byPhone == "phone" \in t1.columns /\ "phone" \in people.columns
        t2 == IF byPhone
              THEN DropColumn(
                       FillUserId(t1, DOMAIN t1.rows, "phone", people, "phone"),
                       "phone")
              ELSE t1
    IN  IF byPhone /\ "user_id" \notin people.columns
        THEN Raised
        ELSE Returned(t2, UnresolvedErrors(t2, "transactions"))

-----------------------------------------------------------------------------
(* Grouped aggregation, as the summary mergers use it.                     *)

\* The keys of df.groupby(col): the non-null values of the column.
GroupKeys(df, col) == {df.rows[i][col] : i \in DOMAIN df.rows} \ {None}

\* The rows of the group of key.
Group(df, col, key) == {i \in DOMAIN df.rows : df.rows[i][col] = key}

\* ('col', 'sum') over the rows idxs.
Sum(df, idxs, col) ==
    LET F[i \in 0..Len(df.rows)] ==
            IF i = 0 THEN 0
            ELSE F[i-1] + (IF i \in idxs THEN df.rows[i][col] ELSE 0)
    IN  F[Len(df.rows)]

\* A mutant of NUnique: the number of rows.
NUniqueRowCount(df, idxs, col) == Cardinality(idxs)

\* ('col', 'nunique') over the rows idxs: distinct non-null values.
NUnique(df, idxs, col) == Cardinality({df.rows[i][col] : i \in idxs} \ {None})

\* The order pandas sorts the names of the model in.
SortedNames == <<"i1", "i2", "s1", "s2", "u1", "u2">>

Rank(name) == CHOOSE k \in DOMAIN SortedNames : SortedNames[k] = name

\* _get_favorite_store / _get_favorite_item, lines 311-341: stores.mode()
\* holds the most frequent non-null values in sorted order; the first one,
\* None when there is none.
Mode(df, idxs, col) ==
    LET vals == {df.rows[i][col] : i \in idxs} \ {None}
        Count(v) == Cardinality({i \in idxs : df.rows[i][col] = v})
        top == {v \in vals : \A w \in vals : Count(w) <= Count(v)}
    IN  IF vals = {} THEN None
        ELSE CHOOSE v \in top : \A w \in top : Rank(v) <= Rank(w)

\* series.idxmax() of store_data.groupby('item')[col].sum(): the first item,
\* in sorted order, whose sum over the rows idxs is the largest.
IdxMaxItem(df, idxs, col) ==
    LET items == {df.rows[i]["item"] : i \in idxs} \ {None}
        Total(it) == Sum(df, {i \in idxs : df.rows[i]["item"] = it}, col)
        top == {it \in items : \A o \in items : Total(o) <= Total(it)}
    IN  IF items = {} THEN None
        ELSE CHOOSE it \in top : \A o \in top : Rank(it) <= Rank(o)

\* A quotient of two aggregated columns rounded to 2 decimals, in
\* hundredths; float division by zero gives inf (nan for 0 / 0) and raises
\* nothing.
Ratio(num, den) ==
    IF den = 0
    THEN [kind |-> IF num = 0 THEN "nan" ELSE "inf", hundredths |-> 0]
    ELSE [kind |-> "number", hundredths |-> (200 * num + den) \div (2 * den)]

\* The keys of a groupby in the order of its result: sorted.
SortedKeys(keys) ==
    SelectIdx(SortedNames, {k \in DOMAIN SortedNames : SortedNames[k] \in keys})

\* A mutant of LeftMergeOnUserId: how='outer', the rows of right that no row
\* of people_df matches come after the others.
OuterMergeOnUserId(people, right, numeric) ==
    LET cols == right.columns \cup {"user_id"}
        Hits(u) == {k \in DOMAIN right.rows : right.rows[k]["user_id"] = u}
        Unmatched(u) == [c \in cols |->
                            IF c = "user_id" THEN u
                            ELSE IF c \in numeric THEN NaN ELSE None]
        F[i \in 0..Len(people.rows)] ==
            IF i = 0 THEN <<>>
            ELSE LET u == people.rows[i]["user_id"]
                 IN  F[i-1] \o (IF Hits(u) = {} THEN <<Unmatched(u)>>
                                ELSE SelectIdx(right.rows, Hits(u)))
        rightOnly == {k \in DOMAIN right.rows :
                         \A i \in DOMAIN people.rows :
                             people.rows[i]["user_id"] # right.rows[k]["user_id"]}
    IN  Table(cols, F[Len(people.rows)] \o SelectIdx(right.rows, rightOnly))

\* pd.merge(people_df[['user_id']], right, on='user_id', how='left'): each
\* row of people_df once per row of right with its user_id, once with NaN in
\* right's columns (numeric names the number columns) when right has none;
\* null keys match each other.
LeftMergeOnUserId(people, right, numeric) ==
    LET cols == right.columns \cup {"user_id"}
        Hits(u) == {k \in DOMAIN right.rows : right.rows[k]["user_id"] = u}
        Unmatched(u) == [c \in cols |->
                            IF c = "user_id" THEN u
                            ELSE IF c \in numeric THEN NaN ELSE None]
        F[i \in 0..Len(people.rows)] ==
            IF i = 0 THEN <<>>
            ELSE LET u == people.rows[i]["user_id"]
                 IN  F[i-1] \o (IF Hits(u) = {} THEN <<Unmatched(u)>>
                                ELSE SelectIdx(right.rows, Hits(u)))
    IN  Table(cols, F[Len(people.rows)])

\* A mutant of FillZero: the missing values stay.
FillZeroSkipped(df, cols) == df

\* df[col] = df[col].fillna(0) for each col of cols.
FillZero(df, cols) ==
    Table(df.columns,
          [i \in DOMAIN df.rows |->
              [c \in df.columns |->
                  IF c \in cols /\ df.rows[i][c] = NaN THEN 0 ELSE df.rows[i][c]]])

-----------------------------------------------------------------------------
(* UserTransactionsMerger.                                                 *)

UserTransactionsRequired == {"user_id", "transaction_id", "price", "item", "store"}

UserTransactionsColumns ==
    {"user_id", "total_spent", "transaction_count", "favorite_store", "favorite_item"}

\* Lines 361-380: the aggregates per user_id, completed against people_df.
UserTransactionSummary(transactions, people) ==
    LET keys == SortedKeys(GroupKeys(transactions, "user_id"))
        aggregated_df ==
            Table(UserTransactionsColumns,
                  [k \in DOMAIN keys |->
                      LET g == Group(transactions, "user_id", keys[k])
                      IN  [user_id |-> keys[k],
                           total_spent |-> Sum(transactions, g, "price"),
                           transaction_count |->
                               NUnique(transactions, g, "transaction_id"),
                           favorite_store |-> Mode(transactions, g, "store"),
                           favorite_item |-> Mode(transactions, g, "item")]])
    IN  FillZero(LeftMergeOnUserId(people, aggregated_df,
                                   {"total_spent", "transaction_count"}),
                 {"total_spent", "transaction_count"})

-----------------------------------------------------------------------------
(* UserTransfersMerger.                                                    *)

UserTransfersRequired == {"transfer_id", "sender_id", "recipient_id", "amount"}

UserTransfersColumns ==
    {"user_id", "total_sent", "total_received", "net_transferred",
     "sent_count", "received_count", "transfer_count"}

\* A mutant of NetTransferred: sent - received.
NetTransferredSwapped(received, sent) == sent - received

\* Line 435: net_transferred[user_id] = received - sent
NetTransferred(received, sent) == received - sent

\* Lines 421-462: totals and counts by sender and by recipient, assembled
\* over every id that sends or receives, completed against people_df.
UserTransferSummary(transfers, people) ==
    LET all_user_ids ==
            {transfers.rows[i]["sender_id"] : i \in DOMAIN transfers.rows}
                \cup {transfers.rows[i]["recipient_id"] : i \in DOMAIN transfers.rows}
        keys == SortedKeys(all_user_ids)
        result_df ==
            Table(UserTransfersColumns,
                  [k \in DOMAIN keys |->
                      LET s == Group(transfers, "sender_id", keys[k])
                          r == Group(transfers, "recipient_id", keys[k])
                          sent_count == NUnique(transfers, s, "transfer_id")
                          received_count == NUnique(transfers, r, "transfer_id")
                      IN  [user_id |-> keys[k],
                           total_sent |-> Sum(transfers, s, "amount"),
                           total_received |-> Sum(transfers, r, "amount"),
                           net_transferred |->
                               NetTransferred(Sum(transfers, r, "amount"),
                                              Sum(transfers, s, "amount")),
                           sent_count |-> sent_count,
                           received_count |-> received_count,
                           transfer_count |-> sent_count + received_count]])
    IN  FillZero(LeftMergeOnUserId(people, result_df,
                                   UserTransfersColumns \ {"user_id"}),
                 UserTransfersColumns \ {"user_id"})

-----------------------------------------------------------------------------
(* ItemSummaryMerger and StoreSummaryMerger.                               *)

ItemSummaryRequired == {"item", "price", "quantity", "transaction_id"}

\* Lines 502-512: one row per item.
ItemSummary(transactions) ==
    LET keys == SortedKeys(GroupKeys(transactions, "item"))
    IN  Table({"item", "total_revenue", "items_sold", "transaction_count",
               "average_price"},
              [k \in DOMAIN keys |->
                  LET g == Group(transactions, "item", keys[k])
                  IN  [item |-> keys[k],
                       total_revenue |-> Sum(transactions, g, "price"),
                       items_sold |-> Sum(transactions, g, "quantity"),
                       transaction_count |->
                           NUnique(transactions, g, "transaction_id"),
                       average_price |-> Ratio(Sum(transactions, g, "price"),
                                               Sum(transactions, g, "quantity"))]])

StoreSummaryRequired == {"store", "item", "price", "quantity", "transaction_id"}

\* A mutant of get_most_sold_item: the store's rows are not selected, the
\* largest quantity over all stores wins.
get_most_sold_item_all_stores(transactions, store) ==
    IdxMaxItem(transactions, DOMAIN transactions.rows, "quantity")

\* StoreSummaryMerger._get_most_sold_item, lines 548-553.
get_most_sold_item(transactions, store) ==
    IdxMaxItem(transactions, Group(transactions, "store", store), "quantity")

\* StoreSummaryMerger._get_most_profitable_item, lines 565-570.
get_most_profitable_item(transactions, store) ==
    IdxMaxItem(transactions, Group(transactions, "store", store), "price")

\* Lines 590-615: one row per store.
StoreSummary(transactions) ==
    LET keys == SortedKeys(GroupKeys(transactions, "store"))
    IN  Table({"store", "total_revenue", "items_sold", "total_transactions",
               "average_transaction_value", "most_sold_item", "most_profitable_item"},
              [k \in DOMAIN keys |->
                  LET g == Group(transactions, "store", keys[k])
                  IN  [store |-> keys[k],
                       total_revenue |-> Sum(transactions, g, "price"),
                       items_sold |-> Sum(transactions, g, "quantity"),
                       total_transactions |->
                           NUnique(transactions, g, "transaction_id"),
                       average_transaction_value |->
                           Ratio(Sum(transactions, g, "price"),
                                 NUnique(transactions, g, "transaction_id")),
                       most_sold_item |-> get_most_sold_item(transactions, keys[k]),
                       most_profitable_item |->
                           get_most_profitable_item(transactions, keys[k])]])

-----------------------------------------------------------------------------
(* The person tables the model draws its inputs from.                      *)

UserIds == {"u1", "u2"}

Cities == {"A", "B"}

Person(u, city, dev) ==
    [user_id |-> u, first_name |-> "fn", last_name |-> "ln",
     email |-> "e", phone |-> "p", city |-> city, country |-> "c",
     devices |-> dev]

PersonRows == {Person(u, c, "['ios', 'mac']") : u \in UserIds \cup {None}, c \in Cities}

\* The column sets a person source may come with.
PersonColumnSets ==
    {common_columns, common_columns \ {"devices"}, common_columns \ {"user_id", "city"}}

Restrict(r, cols) == [c \in cols |-> r[c]]

TablesOver(rowset, cols, maxlen) ==
    UNION {{Table(cols, [i \in 1..n |-> Restrict(s[i], cols)]) :
               s \in [1..n -> rowset]} : n \in 0..maxlen}

PersonTables ==
    UNION {TablesOver(PersonRows, cols, MaxPeopleRows) : cols \in PersonColumnSets}

NoResult == [k \in {} |-> EmptyDataFrame]

-----------------------------------------------------------------------------
(* PeopleMerger and MainDataMerger: two person tables in, 'people' out.    *)

InitPeople ==
    /\ people_json_df \in PersonTables
    /\ people_yml_df \in PersonTables
    /\ people_df = EmptyDataFrame
    /\ promotions_df = EmptyDataFrame
    /\ transactions_df = NoDataFrame
    /\ transfers_df = EmptyDataFrame
    /\ result = NoResult
    /\ merge_errors = <<>>
    /\ called = ""

\* MainDataMerger.merge: works on copies, so the inputs stay as they are; no
\* statement of the try block raises on tables of scalar and list cells.
MainDataMerger_merge ==
    /\ called = ""
    /\ result' = [people |-> MainMergePeople(people_json_df, people_yml_df)]
    /\ called' = "MainDataMerger.merge"
    /\ UNCHANGED <<people_json_df, people_yml_df, people_df, promotions_df,
                   transactions_df, transfers_df, merge_errors>>

\* PeopleMerger.merge: the missing columns are added to the caller's frames
\* (line 132 assigns into self.people_json_df / self.people_yml_df), then the
\* frames are outer-merged on the common columns; an exception of the merge
\* is caught, recorded and answered with an empty frame.
PeopleMerger_merge ==
    /\ called = ""
    /\ people_json_df' = EnsureCommonColumns(people_json_df)
    /\ people_yml_df' = EnsureCommonColumns(people_yml_df)
    /\ IF HasListCell(people_json_df) \/ HasListCell(people_yml_df)
       THEN /\ result' = [people |-> EmptyDataFrame]
            /\ merge_errors' = Append(merge_errors,
                    Message("Unexpected error in people data merging", 0))
       ELSE /\ result' = [people |-> OuterMergeOnCommon(people_json_df', people_yml_df')]
            /\ merge_errors' = merge_errors
    /\ called' = "PeopleMerger.merge"
    /\ UNCHANGED <<people_df, promotions_df, transactions_df, transfers_df>>

NextPeople == MainDataMerger_merge \/ PeopleMerger_merge

SpecPeople == InitPeople /\ [][NextPeople]_vars

-----------------------------------------------------------------------------
(* UserReferencesMerger: identity table, promotions and transactions in.   *)

Emails == {"e1", "e2"}

Phones == {"p1", "p2"}

\* Identity rows: each user_id (or none) with the contacts e1/p1 or e2/p2.
IdentityRows ==
    {[user_id |-> u, email |-> c[1], phone |-> c[2]] :
        u \in UserIds \cup {None}, c \in {<<"e1", "p1">>, <<"e2", "p2">>}}

IdentityColumnSets ==
    {{"user_id", "email", "phone"}, {"user_id", "phone"}, {"user_id", "email"},
     {"email", "phone"}}

IdentityTables ==
    UNION {TablesOver(IdentityRows, cols, MaxIdentityRows) : cols \in IdentityColumnSets}

PromotionRows ==
    {[promotion |-> "promo", user_id |-> u, client_email |-> e, telephone |-> t] :
        u \in {None, "u1"}, e \in {None, "e1"}, t \in {None, "p2"}}

PromotionColumnSets ==
    {{"promotion", "client_email", "telephone"}, {"promotion", "client_email"},
     {"promotion", "telephone"},
     {"promotion", "user_id", "client_email", "telephone"}}

PromotionTables ==
    UNION {TablesOver(PromotionRows, cols, MaxPromotionRows) : cols \in PromotionColumnSets}

\* Transaction lines before resolution: a raw phone and maybe a user_id.
RawTransactionRows ==
    {[transaction_id |-> "t1", item |-> "i1", store |-> "s1", price |-> 1,
      quantity |-> 1, user_id |-> u, phone |-> t] :
        u \in {None, "u1"}, t \in {None, "p1"}}

RawTransactionColumnSets ==
    LET base == {"transaction_id", "item", "store", "price", "quantity"}
    IN  {base \cup {"phone"}, base \cup {"user_id", "phone"}, base}

RawTransactionTables ==
    UNION {TablesOver(RawTransactionRows, cols, MaxTransactionRows) :
              cols \in RawTransactionColumnSets}

\* A merger over promotions alone (transactions_df = None), or one over
\* transactions with a promotions table of no rows.
InitRefs ==
    /\ people_json_df = EmptyDataFrame
    /\ people_yml_df = EmptyDataFrame
    /\ people_df \in IdentityTables
    /\ \/ /\ promotions_df \in PromotionTables
          /\ transactions_df = NoDataFrame
       \/ /\ promotions_df = Table({"promotion", "client_email", "telephone"}, <<>>)
          /\ transactions_df \in RawTransactionTables
    /\ transfers_df = EmptyDataFrame
    /\ result = NoResult
    /\ merge_errors = <<>>
    /\ called = ""

UnexpectedReferenceError == Message("Unexpected error in user reference merging", 0)

\* UserReferencesMerger.merge, lines 272-293: promotions, then transactions
\* when given; an exception of either is caught, recorded, and the tables
\* the merger was constructed with are returned.  The helpers work on copies.
UserReferencesMerger_merge ==
    /\ called = ""
    /\ LET P == add_user_references_to_promotions(people_df, promotions_df)
           T == add_user_references_to_transactions(people_df, transactions_df)
           passthrough == [promotions |-> promotions_df,
                           transactions |-> transactions_df]
       IN  IF P.raised
           THEN /\ result' = passthrough
                /\ merge_errors' = Append(merge_errors, UnexpectedReferenceError)
           ELSE IF transactions_df = NoDataFrame
           THEN /\ result' = [promotions |-> P.df]
                /\ merge_errors' = merge_errors \o P.errors
           ELSE IF T.raised
           THEN /\ result' = passthrough
                /\ merge_errors' =
                       Append(merge_errors \o P.errors, UnexpectedReferenceError)
           ELSE /\ result' = [promotions |-> P.df, transactions |-> T.df]
                /\ merge_errors' = merge_errors \o P.errors \o T.errors
    /\ called' = "UserReferencesMerger.merge"
    /\ UNCHANGED <<people_json_df, people_yml_df, people_df, promotions_df,
                   transactions_df, transfers_df>>

NextRefs == UserReferencesMerger_merge

SpecRefs == InitRefs /\ [][NextRefs]_vars

-----------------------------------------------------------------------------
(* Claims about the people merge.                                          *)

\* A person source as the merge reads it: lists joined, the common columns
\* it lacks filled with None.
AsRead(df) == EnsureCommonColumns(ConvertLists(df))

UserIdsOf(df) == {df.rows[i]["user_id"] : i \in DOMAIN df.rows}

DistinctUserIds(df) ==
    \A i, j \in DOMAIN df.rows :
        i # j => df.rows[i]["user_id"] # df.rows[j]["user_id"]

MainDone == called = "MainDataMerger.merge"

PeopleOut == result["people"]

\* The index of the first row of df whose user_id is u.
FirstRowOf(df, u) ==
    CHOOSE i \in DOMAIN df.rows :
        /\ df.rows[i]["user_id"] = u
        /\ \A j \in 1..(i-1) : df.rows[j]["user_id"] # u

\* Sources that carry the user_id column with no null in it, and no row
\* twice.
UserIdsGiven ==
    \A df \in {people_json_df, people_yml_df} :
        /\ "user_id" \in df.columns
        /\ \A i \in DOMAIN df.rows : notna(df.rows[i]["user_id"])
        /\ \A i, j \in DOMAIN df.rows : i # j => df.rows[i] # df.rows[j]

\* C1 as stated (read on sources of distinct rows that all carry a user_id): after
\* MainDataMerger.merge the 'people' output has
\* len(primary) + |user_ids of secondary that primary lacks| rows, and every
\* user_id of primary is in the output with a primary row's field values.
C1_RowCountLaw ==
    (MainDone /\ UserIdsGiven) =>
        LET J == AsRead(people_json_df)
            Y == AsRead(people_yml_df)
        IN  /\ Len(PeopleOut.rows) =
                   Len(J.rows) + Cardinality(UserIdsOf(Y) \ UserIdsOf(J))
            /\ \A u \in UserIdsOf(J) :
                   \E k \in DOMAIN PeopleOut.rows :
                       /\ PeopleOut.rows[k]["user_id"] = u
                       /\ PeopleOut.rows[k] \in Range(J.rows)

\* C1 amended: the row count law holds when the user_ids of primary are
\* pairwise distinct (null counting as a value); and always, every user_id
\* of primary is in the output exactly once, with the field values of its
\* first primary row.
C1_RowCountLawDistinctPrimary ==
    MainDone =>
        LET J == AsRead(people_json_df)
            Y == AsRead(people_yml_df)
        IN  /\ DistinctUserIds(J) =>
                   Len(PeopleOut.rows) =
                       Len(J.rows) + Cardinality(UserIdsOf(Y) \ UserIdsOf(J))
            /\ \A u \in UserIdsOf(J) :
                   /\ Cardinality({k \in DOMAIN PeopleOut.rows :
                                      PeopleOut.rows[k]["user_id"] = u}) = 1
                   /\ \A k \in DOMAIN PeopleOut.rows :
                          PeopleOut.rows[k]["user_id"] = u =>
                              PeopleOut.rows[k] = J.rows[FirstRowOf(J, u)]

\* C1's case: primary and secondary share a user_id with different cities,
\* and secondary brings a user_id of its own.
C1_Witness ==
    /\ MainDone
    /\ DistinctUserIds(AsRead(people_json_df))
    /\ \E i \in DOMAIN people_json_df.rows, k \in DOMAIN people_yml_df.rows :
           /\ {"user_id", "city"} \subseteq
                  people_json_df.columns \cap people_yml_df.columns
           /\ people_json_df.rows[i]["user_id"] = people_yml_df.rows[k]["user_id"]
           /\ people_json_df.rows[i]["city"] = "A"
           /\ people_yml_df.rows[k]["city"] = "B"
    /\ UserIdsOf(AsRead(people_yml_df)) \ UserIdsOf(AsRead(people_json_df)) # {}
    /\ Len(PeopleOut.rows) = Len(people_json_df.rows) + 1

\* The rows of both sources in primary-then-secondary order.
BothSources == Concat(AsRead(people_json_df), AsRead(people_yml_df)).rows

FirstOccurrence(rows, i) ==
    \A j \in 1..(i-1) : rows[j]["user_id"] # rows[i]["user_id"]

\* C2 as stated (read on sources of distinct rows that all carry a user_id): every row
\* of primary is in the 'people' output, and a row of secondary is missing
\* from it only when its user_id occurred earlier.
C2_NoPrimaryRowDropped ==
    (MainDone /\ UserIdsGiven) =>
        LET J == AsRead(people_json_df)
            n == Len(J.rows)
        IN  /\ \A i \in DOMAIN J.rows : J.rows[i] \in Range(PeopleOut.rows)
            /\ \A i \in DOMAIN BothSources :
                   (i > n /\ BothSources[i] \notin Range(PeopleOut.rows))
                       => ~FirstOccurrence(BothSources, i)

\* C2 amended: a row of either source is missing from the output only when
\* its user_id (null counting as a value) occurred earlier in
\* primary-then-secondary order, the output has one row per first
\* occurrence, and no row of primary is missing when primary's user_ids are
\* pairwise distinct.
C2_OnlyLaterDuplicatesDropped ==
    MainDone =>
        LET J == AsRead(people_json_df)
        IN  /\ \A i \in DOMAIN BothSources :
                   FirstOccurrence(BothSources, i)
                       => BothSources[i] \in Range(PeopleOut.rows)
            /\ Len(PeopleOut.rows) =
                   Cardinality({i \in DOMAIN BothSources :
                                   FirstOccurrence(BothSources, i)})
            /\ DistinctUserIds(J) =>
                   \A i \in DOMAIN J.rows : J.rows[i] \in Range(PeopleOut.rows)

\* C2's case: primary has rows, all with different user_ids, and a row of
\* secondary is dropped as a duplicate.
C2_Witness ==
    /\ MainDone
    /\ Len(people_json_df.rows) = 2
    /\ DistinctUserIds(AsRead(people_json_df))
    /\ \E i \in DOMAIN BothSources :
           /\ i > Len(people_json_df.rows)
           /\ BothSources[i] \notin Range(PeopleOut.rows)

\* C3 as stated (read on sources that each carry pairwise distinct, non-null
\* user_ids): in the identity table returned by MainDataMerger.merge and by
\* PeopleMerger.merge no two rows share a user_id and no row has a null
\* user_id.
C3_UserIdUniqueNonNull ==
    (/\ called \in {"MainDataMerger.merge", "PeopleMerger.merge"}
     /\ UserIdsGiven
     /\ DistinctUserIds(people_json_df)
     /\ DistinctUserIds(people_yml_df)
     /\ "user_id" \in PeopleOut.columns) =>
        /\ DistinctUserIds(PeopleOut)
        /\ \A k \in DOMAIN PeopleOut.rows : notna(PeopleOut.rows[k]["user_id"])

\* The names the output boundary recognises.
OutputNames ==
    {"people", "promotions", "transactions", "user_transactions",
     "user_transfers", "item_summary", "store_summary"}

\* C11 (read on sources that carry user_ids): the mapping
\* MainDataMerger.merge returns holds a table under each of people,
\* promotions, transactions, user_transactions, user_transfers, item_summary
\* and store_summary (the outputs of the stages it runs in order).
C11_PipelineReturnsAllOutputs ==
    (MainDone /\ UserIdsGiven /\ people_json_df.rows # <<>>) =>
        OutputNames \subseteq DOMAIN result

\* The common columns a person source comes without.
MissingCommonColumns(df) == common_columns \ df.columns

\* C12 (read on sources with rows): after MainDataMerger.merge, every common
\* column a person source lacked is a column of the 'people' output, and merge_errors (what
\* get_errors() returns) holds a warning that names it.
C12_SchemaWarningReported ==
    (MainDone /\ people_json_df.rows # <<>> /\ people_yml_df.rows # <<>>) =>
        \A df \in {people_json_df, people_yml_df} :
            \A c \in MissingCommonColumns(df) :
                /\ c \in PeopleOut.columns
                /\ \E k \in DOMAIN merge_errors : c \in merge_errors[k].columns

\* The tables the caller hands to a merger.
InputTables ==
    <<people_json_df, people_yml_df, people_df, promotions_df,
      transactions_df, transfers_df>>

\* C14 (read on person sources with rows): no merge() changes a table of
\* its caller; every input has the same columns and rows after the call as
\* before it.
C14_InputsUnchanged ==
    [][(people_json_df.rows # <<>> /\ people_yml_df.rows # <<>>) =>
           UNCHANGED InputTables]_vars

-----------------------------------------------------------------------------
(* The summary mergers: one merger is constructed, over the tables given.  *)

\* Identity tables as the summaries read them (people_df[['user_id']]), and
\* identity tables without the user_id column.
SummaryIdentityTables ==
    TablesOver(IdentityRows, {"user_id"}, MaxIdentityRows)
        \cup TablesOver({[user_id |-> None, email |-> "e1", phone |-> "p1"]},
                        {"email"}, MaxIdentityRows)

TransactionIds == {"t1", "t2"}

\* Transaction lines of several users, one item and one store; the lines of
\* t1 cost 1 and those of t2 cost 2.
UserLineRows ==
    {[user_id |-> u, transaction_id |-> t, item |-> "i1", store |-> "s1",
      price |-> IF t = "t1" THEN 1 ELSE 2, quantity |-> 1] :
        u \in UserIds \cup {None}, t \in TransactionIds}

\* Transaction lines of one user over items and stores.
ItemLineRows ==
    {[user_id |-> "u1", transaction_id |-> t, item |-> it, store |-> st,
      price |-> p, quantity |-> q] :
        t \in TransactionIds, it \in {"i1", "i2"}, st \in {"s1", "s2"},
        p \in {1, 2}, q \in {0, 1}}

TransactionColumns ==
    {"user_id", "transaction_id", "item", "store", "price", "quantity"}

UserLineTables ==
    TablesOver(UserLineRows, TransactionColumns, MaxTransactionRows)
        \cup TablesOver(UserLineRows, TransactionColumns \ {"user_id"},
                        MaxTransactionRows)

ItemLineTables ==
    TablesOver(ItemLineRows, TransactionColumns, MaxTransactionRows)
        \cup TablesOver(ItemLineRows, TransactionColumns \ {"quantity"},
                        MaxTransactionRows)

\* Transfers from one known id to the other; sender_id and recipient_id are
\* never null.
TransferRows ==
    {r \in [transfer_id : {"x1", "x2"}, sender_id : UserIds,
            recipient_id : UserIds, amount : {20, 50}] :
        r.sender_id # r.recipient_id}

TransferTables ==
    TablesOver(TransferRows, UserTransfersRequired, MaxTransferRows)
        \cup TablesOver(TransferRows, UserTransfersRequired \ {"amount"},
                        MaxTransferRows)

InitSummaries ==
    /\ people_json_df = EmptyDataFrame
    /\ people_yml_df = EmptyDataFrame
    /\ promotions_df = EmptyDataFrame
    /\ \/ /\ people_df \in SummaryIdentityTables
          /\ transactions_df \in UserLineTables
          /\ transfers_df = NoDataFrame
       \/ /\ people_df = Table({"user_id"}, <<[user_id |-> "u1"]>>)
          /\ transactions_df \in ItemLineTables
          /\ transfers_df = NoDataFrame
       \/ /\ people_df \in SummaryIdentityTables
          /\ transactions_df = NoDataFrame
          /\ transfers_df \in TransferTables
    /\ result = NoResult
    /\ merge_errors = <<>>
    /\ called = ""

\* A mutant of SummaryReturn: without the check of the required columns the
\* computation raises KeyError on the missing column, which is caught.
SummaryReturnUnguarded(name, missing, missingText, raises, raisedText, summary) ==
    /\ IF missing # {} \/ raises
       THEN /\ result' = (name :> EmptyDataFrame)
            /\ merge_errors' = Append(merge_errors, Message(raisedText, 0))
       ELSE /\ result' = (name :> summary)
            /\ merge_errors' = merge_errors
    /\ UNCHANGED <<people_json_df, people_yml_df, people_df, promotions_df,
                   transactions_df, transfers_df>>

\* The return of a summary merger: missing required columns give an empty
\* table and one error that names them; an exception of the computation is
\* caught and gives an empty table and an error; else the summary.
SummaryReturn(name, missing, missingText, raises, raisedText, summary) ==
    /\ IF missing # {}
       THEN /\ result' = (name :> EmptyDataFrame)
            /\ merge_errors' =
                   Append(merge_errors, MissingColumnsMessage(missingText, missing))
       ELSE IF raises
       THEN /\ result' = (name :> EmptyDataFrame)
            /\ merge_errors' = Append(merge_errors, Message(raisedText, 0))
       ELSE /\ result' = (name :> summary)
            /\ merge_errors' = merge_errors
    /\ UNCHANGED <<people_json_df, people_yml_df, people_df, promotions_df,
                   transactions_df, transfers_df>>

\* UserTransactionsMerger.merge, lines 350-386; people_df[['user_id']]
\* raises KeyError on an identity table without user_id.
UserTransactionsMerger_merge ==
    /\ called = ""
    /\ transactions_df # NoDataFrame
    /\ called' = "UserTransactionsMerger.merge"
    /\ SummaryReturn("user_transactions",
                     UserTransactionsRequired \ transactions_df.columns,
                     "Missing required columns for user transactions summary",
                     "user_id" \notin people_df.columns,
                     "Unexpected error in user transactions merging",
                     UserTransactionSummary(transactions_df, people_df))

\* UserTransfersMerger.merge, lines 411-468.
UserTransfersMerger_merge ==
    /\ called = ""
    /\ transfers_df # NoDataFrame
    /\ called' = "UserTransfersMerger.merge"
    /\ SummaryReturn("user_transfers",
                     UserTransfersRequired \ transfers_df.columns,
                     "Missing required columns for user transfers summary",
                     "user_id" \notin people_df.columns,
                     "Unexpected error in user transfers merging",
                     UserTransferSummary(transfers_df, people_df))

\* ItemSummaryMerger.merge, lines 491-522.
ItemSummaryMerger_merge ==
    /\ called = ""
    /\ transactions_df # NoDataFrame
    /\ called' = "ItemSummaryMerger.merge"
    /\ SummaryReturn("item_summary",
                     ItemSummaryRequired \ transactions_df.columns,
                     "Missing required columns for item summary",
                     FALSE,
                     "Unexpected error in item summary merging",
                     ItemSummary(transactions_df))

\* StoreSummaryMerger.merge, lines 579-625.
StoreSummaryMerger_merge ==
    /\ called = ""
    /\ transactions_df # NoDataFrame
    /\ called' = "StoreSummaryMerger.merge"
    /\ SummaryReturn("store_summary",
                     StoreSummaryRequired \ transactions_df.columns,
                     "Missing required columns for store summary",
                     FALSE,
                     "Unexpected error in store summary merging",
                     StoreSummary(transactions_df))

NextSummaries ==
    \/ UserTransactionsMerger_merge
    \/ UserTransfersMerger_merge
    \/ ItemSummaryMerger_merge
    \/ StoreSummaryMerger_merge

SpecSummaries == InitSummaries /\ [][NextSummaries]_vars

-----------------------------------------------------------------------------
(* Claims about reference resolution.                                      *)

RefsDone == called = "UserReferencesMerger.merge"

\* The identity table has the user_id column, so no lookup raises.
IdentityHasUserId == "user_id" \in people_df.columns

HasTransactions == transactions_df # NoDataFrame

PromotionsOut == result["promotions"]

TransactionsOut == result["transactions"]

NullUserIds(df) ==
    Cardinality({i \in DOMAIN df.rows : df.rows[i]["user_id"] = None})

\* The entries of merge_errors with the given text.
ErrorsAbout(text) ==
    SelectIdx(merge_errors, {i \in DOMAIN merge_errors : merge_errors[i].text = text})

\* Row i of df finds an identity through its raw column.
FindsIdentity(df, i, raw, attr) ==
    /\ raw \in df.columns
    /\ attr \in people_df.columns
    /\ df.rows[i][raw] # None
    /\ \E k \in DOMAIN people_df.rows : people_df.rows[k][attr] = df.rows[i][raw]

\* C4 as stated (read on identity tables that have user_id, email and
\* phone): the promotions output has neither client_email nor telephone and
\* the transactions output has no phone column, whatever the input.
C4_RawContactColumnGone ==
    (RefsDone /\ people_df.columns = {"user_id", "email", "phone"}) =>
        /\ PromotionsOut.columns \cap {"client_email", "telephone"} = {}
        /\ HasTransactions => "phone" \notin TransactionsOut.columns

\* C4 amended: a raw contact column of the input is gone from the output
\* exactly when resolution is not skipped (user_id absent or entirely null)
\* and the identity table has the column it is looked up in; a table whose
\* user_id is already populated, even partly, keeps it, and so does a table
\* resolved against an identity table without that column.
C4_RawContactColumnGoneWhenLookedUp ==
    (RefsDone /\ IdentityHasUserId) =>
        /\ \A pair \in {<<"client_email", "email">>, <<"telephone", "phone">>} :
               pair[1] \in PromotionsOut.columns <=>
                   /\ pair[1] \in promotions_df.columns
                   /\ \/ AlreadyResolved(promotions_df)
                      \/ pair[2] \notin people_df.columns
        /\ HasTransactions =>
               ("phone" \in TransactionsOut.columns <=>
                   /\ "phone" \in transactions_df.columns
                   /\ \/ AlreadyResolved(transactions_df)
                      \/ "phone" \notin people_df.columns)

\* C4's case: promotions with both raw columns and no user_id are resolved
\* against a full identity table, one row finds no identity, and both raw
\* columns are gone.
C4_Witness ==
    /\ RefsDone
    /\ people_df.columns = {"user_id", "email", "phone"}
    /\ promotions_df.columns = {"promotion", "client_email", "telephone"}
    /\ \E i \in DOMAIN promotions_df.rows :
           /\ promotions_df.rows[i]["client_email"] # None
           /\ ~FindsIdentity(promotions_df, i, "client_email", "email")
           /\ ~FindsIdentity(promotions_df, i, "telephone", "phone")
    /\ PromotionsOut.columns = {"promotion", "user_id"}

\* C5: in promotions resolution a user_id set by the e-mail lookup is not
\* overwritten by the phone lookup: a row whose client_email maps to the
\* user_id X keeps X, whatever identity its telephone maps to.
C5_EmailBeforePhone ==
    (/\ RefsDone
     /\ IdentityHasUserId
     /\ ~AlreadyResolved(promotions_df)
     /\ "email" \in people_df.columns) =>
        \A i \in DOMAIN promotions_df.rows :
            (/\ FindsIdentity(promotions_df, i, "client_email", "email")
             /\ LookupValue(people_df, "email",
                             promotions_df.rows[i]["client_email"]) # None)
            => PromotionsOut.rows[i]["user_id"] =
                   LookupValue(people_df, "email",
                               promotions_df.rows[i]["client_email"])

\* C5's case: a row whose client_email maps to X and whose telephone maps to
\* another identity Y is resolved to X.
C5_Witness ==
    /\ RefsDone
    /\ IdentityHasUserId
    /\ ~AlreadyResolved(promotions_df)
    /\ \E i \in DOMAIN promotions_df.rows :
           /\ FindsIdentity(promotions_df, i, "client_email", "email")
           /\ FindsIdentity(promotions_df, i, "telephone", "phone")
           /\ LET X == LookupValue(people_df, "email",
                                    promotions_df.rows[i]["client_email"])
                  Y == LookupValue(people_df, "phone",
                                    promotions_df.rows[i]["telephone"])
              IN  /\ X # None /\ Y # None /\ X # Y
                  /\ PromotionsOut.rows[i]["user_id"] = X

\* What C6 says of one resolved table: it has the rows of the input, and an
\* error reporting k is recorded exactly when k > 0 of its user_ids are null.
RowsKeptNullsReported(in, out, text) ==
    /\ Len(out.rows) = Len(in.rows)
    /\ IF NullUserIds(out) > 0
       THEN ErrorsAbout(text) = <<Message(text, NullUserIds(out))>>
       ELSE ErrorsAbout(text) = <<>>

\* C6 as stated (read on identity tables that have user_id): the resolved
\* promotions / transactions table has as many rows as the input, and an
\* error reporting k is recorded whenever k > 0 rows of the returned table
\* have a null user_id, none when k = 0.
C6_UnresolvedKeptAndReported ==
    (RefsDone /\ IdentityHasUserId) =>
        /\ RowsKeptNullsReported(promotions_df, PromotionsOut,
                                 "Could not find user_id for promotions")
        /\ HasTransactions =>
               RowsKeptNullsReported(transactions_df, TransactionsOut,
                                     "Could not find user_id for transactions")

\* C6 amended: rows are never dropped; when resolution is not skipped, a row
\* that matches no identity has a null user_id and the error reporting the
\* number k of null user_ids is recorded exactly when k > 0; when the table
\* is returned as already resolved, no error is recorded even if some of its
\* user_ids are null.
C6_UnresolvedKeptReportedUnlessSkipped ==
    (RefsDone /\ IdentityHasUserId) =>
        /\ IF AlreadyResolved(promotions_df)
           THEN /\ PromotionsOut = promotions_df
                /\ ErrorsAbout("Could not find user_id for promotions") = <<>>
           ELSE /\ RowsKeptNullsReported(promotions_df, PromotionsOut,
                                         "Could not find user_id for promotions")
                /\ \A i \in DOMAIN promotions_df.rows :
                       (/\ ~FindsIdentity(promotions_df, i, "client_email", "email")
                        /\ ~FindsIdentity(promotions_df, i, "telephone", "phone"))
                       => PromotionsOut.rows[i]["user_id"] = None
        /\ HasTransactions =>
               IF AlreadyResolved(transactions_df)
               THEN /\ TransactionsOut = transactions_df
                    /\ ErrorsAbout("Could not find user_id for transactions") = <<>>
               ELSE /\ RowsKeptNullsReported(transactions_df, TransactionsOut,
                                             "Could not find user_id for transactions")
                    /\ \A i \in DOMAIN transactions_df.rows :
                           ~FindsIdentity(transactions_df, i, "phone", "phone")
                           => TransactionsOut.rows[i]["user_id"] = None

\* C6's case: of two promotions one finds its identity and one finds none;
\* both rows are returned and the error reports 1.
C6_Witness ==
    /\ RefsDone
    /\ IdentityHasUserId
    /\ ~AlreadyResolved(promotions_df)
    /\ Len(promotions_df.rows) = 2
    /\ \E i, j \in DOMAIN promotions_df.rows :
           /\ PromotionsOut.rows[i]["user_id"] # None
           /\ ~FindsIdentity(promotions_df, j, "client_email", "email")
           /\ ~FindsIdentity(promotions_df, j, "telephone", "phone")
           /\ PromotionsOut.rows[j]["user_id"] = None
    /\ merge_errors = <<Message("Could not find user_id for promotions", 1)>>

-----------------------------------------------------------------------------
(* Claims about the summaries.                                             *)

\* The merger named has run and has computed its summary: no required
\* column was missing and nothing was raised.
UserTransactionsComputed ==
    /\ called = "UserTransactionsMerger.merge"
    /\ UserTransactionsRequired \subseteq transactions_df.columns
    /\ "user_id" \in people_df.columns

UserTransfersComputed ==
    /\ called = "UserTransfersMerger.merge"
    /\ UserTransfersRequired \subseteq transfers_df.columns
    /\ "user_id" \in people_df.columns

ItemSummaryComputed ==
    /\ called = "ItemSummaryMerger.merge"
    /\ ItemSummaryRequired \subseteq transactions_df.columns

StoreSummaryComputed ==
    /\ called = "StoreSummaryMerger.merge"
    /\ StoreSummaryRequired \subseteq transactions_df.columns

\* The lines of the transactions table whose column col holds key.
LinesOf(col, key) ==
    {i \in DOMAIN transactions_df.rows : transactions_df.rows[i][col] = key}

\* The number of distinct transaction ids on the lines idxs.
DistinctTransactions(idxs) ==
    Cardinality({transactions_df.rows[i]["transaction_id"] : i \in idxs})

\* The transfers a user sends, and those a user receives.
SentBy(u) ==
    {i \in DOMAIN transfers_df.rows : transfers_df.rows[i]["sender_id"] = u}

ReceivedBy(u) ==
    {i \in DOMAIN transfers_df.rows : transfers_df.rows[i]["recipient_id"] = u}

RECURSIVE AmountOf(_)
\* The amounts of the transfers idxs, added up.
AmountOf(idxs) ==
    IF idxs = {} THEN 0
    ELSE LET i == CHOOSE j \in idxs : TRUE
         IN  transfers_df.rows[i]["amount"] + AmountOf(idxs \ {i})

DistinctTransfers(idxs) ==
    Cardinality({transfers_df.rows[i]["transfer_id"] : i \in idxs})

\* C7: a computed user_transactions or user_transfers table has the user_ids
\* of the identity table, row for row (so as many rows as it, and no row for
\* an id seen only in the activity); a person without transaction lines has
\* total_spent = 0 and transaction_count = 0, a person without transfers has
\* the six transfer columns 0.
C7_PerUserSummariesComplete ==
    /\ UserTransactionsComputed =>
          LET out == result["user_transactions"]
          IN  /\ Column(out, "user_id") = Column(people_df, "user_id")
              /\ \A k \in DOMAIN out.rows :
                    LinesOf("user_id", out.rows[k]["user_id"]) = {} =>
                        /\ out.rows[k]["total_spent"] = 0
                        /\ out.rows[k]["transaction_count"] = 0
    /\ UserTransfersComputed =>
          LET out == result["user_transfers"]
          IN  /\ Column(out, "user_id") = Column(people_df, "user_id")
              /\ \A k \in DOMAIN out.rows :
                    (/\ SentBy(out.rows[k]["user_id"]) = {}
                     /\ ReceivedBy(out.rows[k]["user_id"]) = {}) =>
                        \A c \in UserTransfersColumns \ {"user_id"} :
                            out.rows[k][c] = 0

\* The identity table is [u2, u2] and the only line is of u1: two rows out,
\* both of u2 and filled with zeros, none of u1.
C7_Witness ==
    /\ UserTransactionsComputed
    /\ Len(people_df.rows) = 2
    /\ people_df.rows[1]["user_id"] = "u2"
    /\ people_df.rows[2]["user_id"] = "u2"
    /\ Len(transactions_df.rows) = 1
    /\ transactions_df.rows[1]["user_id"] = "u1"
    /\ Len(result["user_transactions"].rows) = 2
    /\ result["user_transactions"].rows[1]["total_spent"] = 0
    /\ result["user_transactions"].rows[2]["transaction_count"] = 0

\* C8: transaction_count of a user and of an item, and total_transactions of
\* a store, are the number of distinct transaction ids on the lines of that
\* user, item or store.
C8_DistinctTransactionCount ==
    /\ UserTransactionsComputed =>
          \A k \in DOMAIN result["user_transactions"].rows :
              LET row == result["user_transactions"].rows[k]
              IN  row["transaction_count"] =
                      IF isna(row["user_id"]) THEN 0
                      ELSE DistinctTransactions(LinesOf("user_id", row["user_id"]))
    /\ ItemSummaryComputed =>
          \A k \in DOMAIN result["item_summary"].rows :
              LET row == result["item_summary"].rows[k]
              IN  row["transaction_count"] =
                      DistinctTransactions(LinesOf("item", row["item"]))
    /\ StoreSummaryComputed =>
          \A k \in DOMAIN result["store_summary"].rows :
              LET row == result["store_summary"].rows[k]
              IN  row["total_transactions"] =
                      DistinctTransactions(LinesOf("store", row["store"]))

\* Two lines of u1 carry the same transaction id: the count of u1 is 1.
C8_Witness ==
    /\ UserTransactionsComputed
    /\ Len(transactions_df.rows) = 2
    /\ transactions_df.rows[1]["user_id"] = "u1"
    /\ transactions_df.rows[2]["user_id"] = "u1"
    /\ transactions_df.rows[1]["transaction_id"] = transactions_df.rows[2]["transaction_id"]
    /\ \E k \in DOMAIN result["user_transactions"].rows :
          /\ result["user_transactions"].rows[k]["user_id"] = "u1"
          /\ result["user_transactions"].rows[k]["transaction_count"] = 1

\* C9: on every row of a computed user_transfers table, net_transferred is
\* what the person received minus what the person sent, and transfer_count
\* is the distinct transfers sent plus the distinct transfers received.
C9_NetAndTransferCount ==
    UserTransfersComputed =>
        \A k \in DOMAIN result["user_transfers"].rows :
            LET row == result["user_transfers"].rows[k]
                u == row["user_id"]
            IN  /\ row["total_sent"] = AmountOf(SentBy(u))
                /\ row["total_received"] = AmountOf(ReceivedBy(u))
                /\ row["net_transferred"] = AmountOf(ReceivedBy(u)) - AmountOf(SentBy(u))
                /\ row["sent_count"] = DistinctTransfers(SentBy(u))
                /\ row["received_count"] = DistinctTransfers(ReceivedBy(u))
                /\ row["transfer_count"] =
                       DistinctTransfers(SentBy(u)) + DistinctTransfers(ReceivedBy(u))

\* u1 sends 50 to u2 and u2 sends 20 to u1: net of u1 is -30, net of u2 is
\* 30, transfer_count of u1 is 2.
C9_Witness ==
    /\ UserTransfersComputed
    /\ transfers_df.rows =
          <<[transfer_id |-> "x1", sender_id |-> "u1", recipient_id |-> "u2",
             amount |-> 50],
            [transfer_id |-> "x2", sender_id |-> "u2", recipient_id |-> "u1",
             amount |-> 20]>>
    /\ Column(people_df, "user_id") = <<"u1", "u2">>
    /\ result["user_transfers"].rows[1]["net_transferred"] = -30
    /\ result["user_transfers"].rows[2]["net_transferred"] = 30
    /\ result["user_transfers"].rows[1]["transfer_count"] = 2

\* C10: an item whose items_sold is 0 has the no-value marker as its
\* average_price in the item summary, and the division is reported in
\* merge_errors.
C10_ZeroQuantityNoValueAndWarning ==
    ItemSummaryComputed =>
        \A k \in DOMAIN result["item_summary"].rows :
            result["item_summary"].rows[k]["items_sold"] = 0 =>
                /\ result["item_summary"].rows[k]["average_price"].kind = "nan"
                /\ merge_errors # <<>>

\* The summary mergers: the name of merge(), the output name, the required
\* columns and the table they are looked for in.
SummaryMergers ==
    {[merge |-> "UserTransactionsMerger.merge", output |-> "user_transactions",
      required |-> UserTransactionsRequired, table |-> transactions_df],
     [merge |-> "UserTransfersMerger.merge", output |-> "user_transfers",
      required |-> UserTransfersRequired, table |-> transfers_df],
     [merge |-> "ItemSummaryMerger.merge", output |-> "item_summary",
      required |-> ItemSummaryRequired, table |-> transactions_df],
     [merge |-> "StoreSummaryMerger.merge", output |-> "store_summary",
      required |-> StoreSummaryRequired, table |-> transactions_df]}

\* C13: a summary merger whose table lacks some of its required columns
\* returns an empty table under its output name and has exactly one error,
\* which names the missing columns; a merger whose own required columns are
\* all there computes its summary without any error, whatever columns the
\* other mergers would miss in the same table.
C13_MissingColumnsStageLocal ==
    \A m \in SummaryMergers :
        called = m.merge =>
            IF m.required \ m.table.columns # {}
            THEN /\ DOMAIN result = {m.output}
                 /\ result[m.output] = EmptyDataFrame
                 /\ Len(merge_errors) = 1
                 /\ merge_errors[1].columns = m.required \ m.table.columns
            ELSE \/ /\ m.output \in {"user_transactions", "user_transfers"}
                    /\ "user_id" \notin people_df.columns
                 \/ /\ DOMAIN result = {m.output}
                    /\ result[m.output].columns # {}
                    /\ merge_errors = <<>>

\* Transactions that have lines and no user_id column: the user
\* transactions merger answers with an empty table and the one error.
C13_Witness ==
    /\ called = "UserTransactionsMerger.merge"
    /\ transactions_df.rows # <<>>
    /\ UserTransactionsRequired \ transactions_df.columns = {"user_id"}
    /\ result["user_transactions"] = EmptyDataFrame
    /\ Len(merge_errors) = 1
    /\ merge_errors[1].columns = {"user_id"}

\* The lines of item it at store st.
LinesOfItemAt(st, it) == {i \in LinesOf("store", st) : transactions_df.rows[i]["item"] = it}

\* The items with a line at store st.
ItemsAt(st) == {transactions_df.rows[i]["item"] : i \in LinesOf("store", st)}

RECURSIVE MeasureOf(_, _)
\* The column col of the lines idxs of the transactions table, added up.
MeasureOf(idxs, col) ==
    IF idxs = {} THEN 0
    ELSE LET i == CHOOSE j \in idxs : TRUE
         IN  transactions_df.rows[i][col] + MeasureOf(idxs \ {i}, col)

\* it is an item of store st whose summed col at st no item of st exceeds.
MaximalAt(st, it, col) ==
    /\ it \in ItemsAt(st)
    /\ \A o \in ItemsAt(st) :
          MeasureOf(LinesOfItemAt(st, o), col) <= MeasureOf(LinesOfItemAt(st, it), col)

\* C15: on every row of a computed store summary, most_sold_item is an item
\* of that store with the largest summed quantity at that store, and
\* most_profitable_item one with the largest summed price at that store.
C15_BestItemsWithinStore ==
    StoreSummaryComputed =>
        \A k \in DOMAIN result["store_summary"].rows :
            LET row == result["store_summary"].rows[k]
            IN  /\ MaximalAt(row["store"], row["most_sold_item"], "quantity")
                /\ MaximalAt(row["store"], row["most_profitable_item"], "price")

\* i1 is the only item of s1 and sells less and earns less than i2 does at
\* s2: i1 is still the most sold and most profitable item of s1.
C15_Witness ==
    /\ StoreSummaryComputed
    /\ Len(transactions_df.rows) = 2
    /\ transactions_df.rows[1]["store"] = "s1"
    /\ transactions_df.rows[1]["item"] = "i1"
    /\ transactions_df.rows[2]["store"] = "s2"
    /\ transactions_df.rows[2]["item"] = "i2"
    /\ transactions_df.rows[1]["quantity"] < transactions_df.rows[2]["quantity"]
    /\ transactions_df.rows[1]["price"] < transactions_df.rows[2]["price"]
    /\ \E k \in DOMAIN result["store_summary"].rows :
          /\ result["store_summary"].rows[k]["store"] = "s1"
          /\ result["store_summary"].rows[k]["most_sold_item"] = "i1"
          /\ result["store_summary"].rows[k]["most_profitable_item"] = "i1"

\* The column col of the user_transfers output, added up over its rows.
TransfersColumnTotal(col) ==
    LET rows == result["user_transfers"].rows
        F[i \in 0..Len(rows)] == IF i = 0 THEN 0 ELSE F[i-1] + rows[i][col]
    IN  F[Len(rows)]

\* The user_ids of the identity table.
IdentityIds == {people_df.rows[i]["user_id"] : i \in DOMAIN people_df.rows}

\* The transfers whose sender (recipient) is a user of the identity table.
SentByIdentities ==
    {i \in DOMAIN transfers_df.rows : transfers_df.rows[i]["sender_id"] \in IdentityIds}

ReceivedByIdentities ==
    {i \in DOMAIN transfers_df.rows : transfers_df.rows[i]["recipient_id"] \in IdentityIds}

\* Every sender and recipient is a user of the identity table.
AllPartiesKnown ==
    /\ SentByIdentities = DOMAIN transfers_df.rows
    /\ ReceivedByIdentities = DOMAIN transfers_df.rows

\* C16: in a computed user_transfers table over an identity table of
\* distinct user_ids, total_sent adds up to the amounts sent by users of the
\* identity table and total_received to the amounts they received; when
\* every sender and recipient is such a user, both are the sum of all
\* amounts and net_transferred adds up to 0.
C16_TransferConservation ==
    (UserTransfersComputed /\ DistinctUserIds(people_df)) =>
        /\ TransfersColumnTotal("total_sent") = AmountOf(SentByIdentities)
        /\ TransfersColumnTotal("total_received") = AmountOf(ReceivedByIdentities)
        /\ AllPartiesKnown =>
              /\ TransfersColumnTotal("total_sent") = AmountOf(DOMAIN transfers_df.rows)
              /\ TransfersColumnTotal("total_received") = AmountOf(DOMAIN transfers_df.rows)
              /\ TransfersColumnTotal("net_transferred") = 0

\* Two transfers between the two users of the identity table, with nets
\* that are not 0 and add up to 0.
C16_Witness ==
    /\ UserTransfersComputed
    /\ DistinctUserIds(people_df)
    /\ IdentityIds = UserIds
    /\ Len(transfers_df.rows) = 2
    /\ AllPartiesKnown
    /\ \E k \in DOMAIN result["user_transfers"].rows :
          result["user_transfers"].rows[k]["net_transferred"] > 0
    /\ TransfersColumnTotal("net_transferred") = 0
    /\ TransfersColumnTotal("total_sent") = AmountOf(DOMAIN transfers_df.rows)

\* The sender is not in the identity table: the totals sent miss its amount.
C16_WitnessUnknownSender ==
    /\ UserTransfersComputed
    /\ IdentityIds = {"u2"}
    /\ Len(transfers_df.rows) = 1
    /\ transfers_df.rows[1]["sender_id"] = "u1"
    /\ TransfersColumnTotal("total_sent") = 0
    /\ TransfersColumnTotal("total_received") = transfers_df.rows[1]["amount"]


====
